---- MODULE Spec2Model ----
(***************************************************************************)
(* Model of the two Houdini shelf tools of hanijahans/houdini-tools:       *)
(*   tools/finalization-checklist/src/finalization-checklist.py            *)
(*   tools/viewport-screenshot/src/viewport-screenshot.py                  *)
(*                                                                         *)
(* Text (JSON, user input, parameter values) is a sequence of one-character *)
(* strings; a file path is a sequence of name tokens whose last token is   *)
(* the extension when it starts with a dot.  Python's None is the empty    *)
(* sequence where the code only tests truthiness.                          *)
(***************************************************************************)
EXTENDS Integers, Sequences, FiniteSets, TLC

\* ---------------------------------------------------------------- bounds
\* number of checklist rows (len(CHECK_ITEMS) is 18 in the source)
NItems == 2
\* distinct readings of time.time()
MaxTime == 1
\* longest scene (string parameters visited by the path scan)
MaxParms == 53
\* longest hip file name, in tokens, that is still finalized
MaxPathTokens == 4

\* ------------------------------------------------------ program constants
\* finalization-checklist.py:125  `if len(bad) > 50`
TruncateAfter == 50
Range(s) == {s[i] : i \in DOMAIN s}

AllIdx == 0 .. (NItems - 1)

Times == 1 .. MaxTime

\* ------------------------------------------------------------ text helpers
Digits == <<"0", "1", "2", "3", "4", "5", "6", "7", "8", "9">>

IsDigit(c) == c \in Range(Digits)

DigitValue(c) == CHOOSE d \in 0 .. 9 : Digits[d + 1] = c

RECURSIVE IntToText(_)
IntToText(n) ==
  IF n < 10 THEN <<Digits[n + 1]>>
  ELSE IntToText(n \div 10) \o <<Digits[(n % 10) + 1]>>

HasPrefixAt(text, pos, pre) ==
  /\ pos + Len(pre) - 1 <= Len(text)
  /\ SubSeq(text, pos, pos + Len(pre) - 1) = pre

StartsWith(text, pre) == HasPrefixAt(text, 1, pre)

Contains(text, sub) ==
  \E p \in 1 .. Len(text) : HasPrefixAt(text, p, sub)

\* consume decimal digits from pos on
RECURSIVE ScanDigits(_, _, _)
ScanDigits(text, pos, acc) ==
  IF pos <= Len(text) /\ IsDigit(text[pos])
  THEN ScanDigits(text, pos + 1, acc * 10 + DigitValue(text[pos]))
  ELSE [val |-> acc, pos |-> pos]

\* ------------------------------------------------- json.dumps / json.loads
KeyChecked == <<"{", "\"", "c", "h", "e", "c", "k", "e", "d", "\"", ":", " ">>

KeyTime == <<",", " ", "\"", "t", "i", "m", "e", "\"", ":", " ">>

\* json.dumps with an item separator of "" instead of ", "
RECURSIVE JoinInts_nosep(_)
JoinInts_nosep(l) ==
  IF l = <<>> THEN <<>>
  ELSE IntToText(l[1]) \o JoinInts_nosep(Tail(l))

RECURSIVE JoinInts(_)
JoinInts(l) ==
  IF l = <<>> THEN <<>>
  ELSE IF Len(l) = 1 THEN IntToText(l[1])
  ELSE IntToText(l[1]) \o <<",", " ">> \o JoinInts(Tail(l))

\* a float reading t of the clock is written as "<t>.5"
FloatToText(t) == IntToText(t) \o <<".", "5">>

\* json.dumps({"checked": l, "time": t})
json_dumps(l, t) ==
  KeyChecked \o <<"[">> \o JoinInts(l) \o <<"]">> \o KeyTime
    \o FloatToText(t) \o <<"}">>

ParseFail == [ok |-> FALSE, val |-> <<>>, pos |-> 0]

\* elements of a JSON array of integers, after the opening bracket
RECURSIVE ParseElems(_, _, _)
ParseElems(text, pos, acc) ==
  IF ~(pos <= Len(text) /\ IsDigit(text[pos])) THEN ParseFail
  ELSE LET n == ScanDigits(text, pos, 0) IN
       IF HasPrefixAt(text, n.pos, <<"]">>)
       THEN [ok |-> TRUE, val |-> Append(acc, n.val), pos |-> n.pos + 1]
       ELSE IF HasPrefixAt(text, n.pos, <<",", " ">>)
       THEN ParseElems(text, n.pos + 2, Append(acc, n.val))
       ELSE ParseFail

ParseList(text, pos) ==
  IF ~HasPrefixAt(text, pos, <<"[">>) THEN ParseFail
  ELSE IF HasPrefixAt(text, pos + 1, <<"]">>)
  THEN [ok |-> TRUE, val |-> <<>>, pos |-> pos + 2]
  ELSE ParseElems(text, pos + 1, <<>>)

ParseFloat(text, pos) ==
  IF ~(pos <= Len(text) /\ IsDigit(text[pos])) THEN ParseFail
  ELSE LET n == ScanDigits(text, pos, 0) IN
       IF ~(HasPrefixAt(text, n.pos, <<".">>)
            /\ n.pos + 1 <= Len(text) /\ IsDigit(text[n.pos + 1]))
       THEN ParseFail
       ELSE LET f == ScanDigits(text, n.pos + 1, 0) IN
            [ok |-> TRUE, val |-> n.val, pos |-> f.pos]

\* json.loads on the texts that reach it here: a record written by
\* json_dumps parses to its dict, anything else raises (ok = FALSE).
json_loads(text) ==
  IF ~StartsWith(text, KeyChecked)
  THEN [ok |-> FALSE, checked |-> <<>>, time |-> 0]
  ELSE LET l == ParseList(text, Len(KeyChecked) + 1) IN
       IF ~l.ok \/ ~HasPrefixAt(text, l.pos, KeyTime)
       THEN [ok |-> FALSE, checked |-> <<>>, time |-> 0]
       ELSE LET t == ParseFloat(text, l.pos + Len(KeyTime)) IN
            IF t.ok /\ HasPrefixAt(text, t.pos, <<"}">>) /\ t.pos = Len(text)
            THEN [ok |-> TRUE, checked |-> l.val, time |-> t.val]
            ELSE [ok |-> FALSE, checked |-> <<>>, time |-> 0]

\* --------------------------------------------- persistence (userData on /obj)
\* hou.node("/obj"): the object manager, present in every session
_state_node == "/obj"

NoUserData == [present |-> FALSE, text |-> <<>>]

EmptyDict == [hasChecked |-> FALSE, checked |-> <<>>]

_load_state(ud) ==
  IF _state_node = "" THEN EmptyDict
  ELSE IF ~ud.present \/ ud.text = <<>> THEN EmptyDict
  ELSE LET d == json_loads(ud.text) IN
       IF d.ok THEN [hasChecked |-> TRUE, checked |-> d.checked]
       ELSE EmptyDict

_save_state(ud, checked_indices, t) ==
  IF _state_node = "" THEN ud
  ELSE [present |-> TRUE, text |-> json_dumps(checked_indices, t)]

\* saved.get("checked", [])
DictGetChecked(d) == IF d.hasChecked THEN d.checked ELSE <<>>

\* FinalizationDialog.__init__: rows checked from the saved state
LoadChecked(ud) ==
  LET checked_set == Range(DictGetChecked(_load_state(ud)))
  IN {i \in AllIdx : i \in checked_set}

\* the indices of chk below n, ascending
RECURSIVE Ascending(_, _)
Ascending(chk, n) ==
  IF n = 0 THEN <<>>
  ELSE IF (n - 1) \in chk THEN Append(Ascending(chk, n - 1), n - 1)
  ELSE Ascending(chk, n - 1)

\* range(self.list.count() - 1): the last row is never collected
_collect_checked_indices_short(chk) == Ascending(chk, NItems - 1)

_collect_checked_indices(chk) == Ascending(chk, NItems)

_persist_now(ud, chk, t) == _save_state(ud, _collect_checked_indices(chk), t)

_all_checked(chk) == \A i \in AllIdx : i \in chk

\* ------------------------------------------------------------ file paths
Untitled == <<"untitled", ".hip">>

\* str.lower() on a name token
Lower(tok) ==
  CASE tok = "_FINAL" -> "_final"
    [] tok = ".HIP" -> ".hip"
    [] tok = "SHOT" -> "shot"
    [] OTHER -> tok

IsExt(tok) == tok \in {".hip", ".HIP", ".hipnc"}

\* cur.lower().endswith("_final.hip")
EndsWithFinalHip(cur) ==
  /\ Len(cur) >= 2
  /\ Lower(cur[Len(cur) - 1]) = "_final"
  /\ Lower(cur[Len(cur)]) = ".hip"

\* os.path.splitext
splitext(p) ==
  IF Len(p) >= 2 /\ IsExt(p[Len(p)])
  THEN [base |-> SubSeq(p, 1, Len(p) - 1), ext |-> <<p[Len(p)]>>]
  ELSE [base |-> p, ext |-> <<>>]

\* host faults a handler run can meet
Faults == {"save", "makedirs", "settings", "flipbook"}

\* the faults of one handler run: none, or one of fs
FaultSets(fs) == {{}} \cup {{f} : f \in fs}

\* _save_as_final: ret is the returned path (<<>> for None), path the
\* document path afterwards, raised an exception leaving the function
_save_as_final(cur, F) ==
  IF cur = <<>> \/ cur = Untitled
  THEN [ret |-> <<>>, saved |-> FALSE, raised |-> FALSE, path |-> cur,
        events |-> <<"warn_save_first">>]
  ELSE IF EndsWithFinalHip(cur)
  THEN [ret |-> cur, saved |-> FALSE, raised |-> FALSE, path |-> cur,
        events |-> <<>>]
  ELSE LET sp == splitext(cur)
           final_path == sp.base \o <<"_final">> \o sp.ext
       IN IF "save" \in F
          THEN [ret |-> <<>>, saved |-> FALSE, raised |-> TRUE, path |-> cur,
                events |-> <<"save_raises">>]
          ELSE [ret |-> final_path, saved |-> TRUE, raised |-> FALSE,
                path |-> final_path, events |-> <<"save">>]

\* ------------------------------------------------------ screenshot helper
\* _screenshot_viewport(custom_suffix): ret is TRUE when a path is returned,
\* dir whether $HIP/screenshots exists afterwards, shot the image written
_screenshot_viewport(custom_suffix, sv, dirExists, F) ==
  IF ~sv
  THEN [ret |-> FALSE, raised |-> FALSE, dir |-> dirExists, shot |-> {},
        events |-> <<>>]
  ELSE IF ~dirExists /\ "makedirs" \in F
  THEN [ret |-> FALSE, raised |-> TRUE, dir |-> FALSE, shot |-> {},
        events |-> <<"makedirs_raises">>]
  ELSE LET made == IF dirExists THEN <<>> ELSE <<"makedirs">> IN
       IF "settings" \in F
       THEN [ret |-> FALSE, raised |-> TRUE, dir |-> TRUE, shot |-> {},
             events |-> made \o <<"settings_raises">>]
       ELSE IF "flipbook" \in F
       THEN [ret |-> FALSE, raised |-> FALSE, dir |-> TRUE, shot |-> {},
             events |-> made \o <<"flipbook_raises">>]
       ELSE [ret |-> TRUE, raised |-> FALSE, dir |-> TRUE,
             shot |-> {custom_suffix}, events |-> made \o <<"flipbook">>]

\* ------------------------------------------------------ absolute-path scan
Txt_unix == <<"/", "a">>

Txt_winfwd == <<"C", ":", "/", "a">>

Txt_winback == <<"C", ":", "\\", "a">>

Txt_rel == <<"a", "/", "b">>

Txt_op == <<"o", "p", ":", "/", "a">>

Txt_hip == <<"$", "H", "I", "P", "/", "a">>

Txt_job == <<"/", "$", "J", "O", "B">>

StrParm(v) == [type |-> "String", raises |-> FALSE, val |-> v]

\* the kinds of parameter a scene is made of
ParmKinds ==
  << StrParm(Txt_unix), StrParm(Txt_rel), StrParm(Txt_winfwd),
     StrParm(Txt_hip), StrParm(Txt_winback), StrParm(Txt_job),
     StrParm(Txt_op), StrParm(<<>>),
     [type |-> "Float", raises |-> FALSE, val |-> Txt_unix],
     [type |-> "String", raises |-> TRUE, val |-> Txt_unix] >>

\* a scene of n parameters, flattened over the roots and their nodes
MakeScene(n, off, stride) ==
  [i \in 1 .. n |-> ParmKinds[((off + (i - 1) * stride) % Len(ParmKinds)) + 1]]

TruncMarker == [parm |-> 0, val |-> <<"...", "(truncated)">>]

is_abs(val) ==
  \/ Contains(val, <<":", "/">>)
  \/ StartsWith(val, <<"/">>)
  \/ (Len(val) > 2 /\ SubSeq(val, 2, 3) = <<":", "\\">>)

Flagged(val) ==
  /\ is_abs(val)
  /\ ~Contains(val, <<"$", "H", "I", "P">>)
  /\ ~Contains(val, <<"$", "J", "O", "B">>)

\* the parameter passes every `continue` of the loop and is reported
Reports(parm) ==
  /\ parm.type = "String"
  /\ ~parm.raises
  /\ parm.val # <<>>
  /\ Flagged(parm.val)

\* bad.append(...) and the test of len(bad) that follows it
RECURSIVE ScanParms(_, _, _)
ScanParms(sc, i, bad_) ==
  IF i > Len(sc) THEN bad_
  ELSE IF ~Reports(sc[i]) THEN ScanParms(sc, i + 1, bad_)
  ELSE IF Len(bad_) + 1 > TruncateAfter
  THEN bad_ \o <<[parm |-> i, val |-> sc[i].val], TruncMarker>>
  ELSE ScanParms(sc, i + 1, Append(bad_, [parm |-> i, val |-> sc[i].val]))

_has_absolute_paths(sc) == ScanParms(sc, 1, <<>>)

\* ------------------------------------------------------------------ state
VARIABLES
  tool,        \* shelf tool of the current (or last) run: none, checklist, shot
  handler,     \* the handler or script step that ran last
  phases,      \* phases of the tool's state machine passed in that step (run)
  userData,    \* /obj userData under STATE_KEY
  hipPath,     \* hou.hipFile.path()
  screensDir,  \* $HIP/screenshots exists
  sceneViewer, \* a Scene Viewer pane tab is present
  shots,       \* images written by a flipbook in this run, by kind
  scene,       \* the parameters under /obj, /stage, /mat, /img
  dlg,         \* FinalizationDialog: closed, open, accepted, rejected
  checked,     \* rows of self.list whose checkState is Checked
  log,         \* host calls and prompts of the last handler (run), in order
  saf,         \* the last call of _save_as_final
  bad,         \* the last list returned by _has_absolute_paths
  lastSaved,   \* the list last handed to _save_state
  changed,     \* a row changed state since the dialog was opened
  pc,          \* viewport-screenshot.py: position in the script
  custom,      \* viewport-screenshot.py: what readMultiInput returned
  resolution,  \* viewport-screenshot.py: resolution
  capture      \* viewport-screenshot.py: resolution of the flipbook request

vars == <<tool, handler, phases, userData, hipPath, screensDir, sceneViewer,
          shots, scene, dlg, checked, log, saf, bad, lastSaved, changed, pc,
          custom, resolution, capture>>

envVars == <<hipPath, screensDir, sceneViewer, scene>>

shotVars == <<pc, custom, resolution, capture>>

NoSaf == [called |-> FALSE, cur |-> <<>>, ret |-> <<>>, saved |-> FALSE]

NoCustom == [read |-> FALSE, btn |-> 0, w |-> <<>>, h |-> <<>>]

NeverSaved == [valid |-> FALSE, list |-> <<>>]

\* ------------------------------------------------- FinalizationDialog._on_*
\* _on_screenshot
_on_screenshot(sv, dirExists, F) ==
  LET sh == _screenshot_viewport("checkpoint", sv, dirExists, F) IN
  [log |-> sh.events \o
           (IF sh.raised THEN <<"uncaught">>
            ELSE IF sh.ret THEN <<"notify_shot_saved">>
            ELSE <<"notify_shot_failed">>),
   screensDir |-> sh.dir, shot |-> sh.shot]

\* the answer to the prompt is ignored: unchecked rows always end the handler
PastUnchecked_blocked(chk, ansU) == _all_checked(chk)

\* _on_finalize goes on past the "Not all items are checked" prompt
PastUnchecked(chk, ansU) == _all_checked(chk) \/ ansU # 0

FinalizeReturn(ud, cur, dirExists, lg, b) ==
  [log |-> lg, userData |-> ud, hipPath |-> cur, screensDir |-> dirExists,
   shot |-> {}, accepted |-> FALSE, saf |-> NoSaf, bad |-> b,
   persisted |-> FALSE]

\* _on_finalize; ansU and ansP are the buttons pressed in the two prompts
_on_finalize(chk, ud, cur, dirExists, sc, sv, ansU, ansP, F, t) ==
  LET asked == IF _all_checked(chk) THEN <<>>
               ELSE IF ansU = 0 THEN <<"ask_unchecked:go_back">>
               ELSE <<"ask_unchecked:proceed">>
  IN
  IF ~PastUnchecked(chk, ansU)
  THEN FinalizeReturn(ud, cur, dirExists, asked, <<>>)
  ELSE
  LET bad_paths == _has_absolute_paths(sc)
      lg1 == asked \o <<"scan">> \o
             (IF bad_paths = <<>> THEN <<>>
              ELSE IF ansP = 0 THEN <<"ask_paths:fix_first">>
              ELSE <<"ask_paths:proceed">>)
  IN
  IF bad_paths # <<>> /\ ansP = 0
  THEN FinalizeReturn(ud, cur, dirExists, lg1, bad_paths)
  ELSE
  LET ud1 == _persist_now(ud, chk, t)
      s == _save_as_final(cur, F)
      lg2 == lg1 \o <<"persist">> \o s.events
      call == [called |-> TRUE, cur |-> cur, ret |-> s.ret, saved |-> s.saved]
  IN
  IF s.raised
  THEN [log |-> lg2 \o <<"uncaught">>, userData |-> ud1, hipPath |-> s.path,
        screensDir |-> dirExists, shot |-> {}, accepted |-> FALSE,
        saf |-> call, bad |-> bad_paths, persisted |-> TRUE]
  ELSE IF s.ret = <<>>
  THEN [log |-> lg2 \o <<"accept">>, userData |-> ud1, hipPath |-> s.path,
        screensDir |-> dirExists, shot |-> {}, accepted |-> TRUE,
        saf |-> call, bad |-> bad_paths, persisted |-> TRUE]
  ELSE
  LET sh == _screenshot_viewport("final", sv, dirExists, F) IN
  IF sh.raised
  THEN [log |-> lg2 \o sh.events \o <<"uncaught">>, userData |-> ud1,
        hipPath |-> s.path, screensDir |-> sh.dir, shot |-> {},
        accepted |-> FALSE, saf |-> call, bad |-> bad_paths,
        persisted |-> TRUE]
  ELSE [log |-> lg2 \o sh.events \o
                <<IF sh.ret THEN "notify_saved_and_shot" ELSE "notify_saved",
                  "accept">>,
        userData |-> ud1, hipPath |-> s.path, screensDir |-> sh.dir,
        shot |-> sh.shot, accepted |-> TRUE, saf |-> call,
        bad |-> bad_paths, persisted |-> TRUE]

\* ------------------------------------------------------------ initial state
\* lists an earlier session may have saved (a longer checklist included)
InitLists == {<<1>>, <<0, 12>>}

InitSaved ==
  {[ud |-> _save_state(NoUserData, l, 1), ls |-> [valid |-> TRUE, list |-> l]]
     : l \in InitLists}
  \cup
  {[ud |-> u, ls |-> NeverSaved]
     : u \in {NoUserData, [present |-> TRUE, text |-> <<"{", "\"", "c">>]}}

InitPaths ==
  { Untitled, <<"shot", ".hip">>, <<"SHOT", "_FINAL", ".HIP">>,
    <<"shot", ".hipnc">> }

DialogScenes == {MakeScene(1, 1, 0), MakeScene(2, 0, 1)}

InitLocal ==
  /\ tool = "none"
  /\ handler = "none"
  /\ phases = <<"Idle">>
  /\ dlg = "closed"
  /\ checked = {}
  /\ log = <<>>
  /\ saf = NoSaf
  /\ bad = <<>>
  /\ changed = FALSE
  /\ pc = "idle"
  /\ custom = NoCustom
  /\ resolution = <<>>
  /\ capture = <<>>

Init ==
  /\ InitLocal
  /\ \E i \in InitSaved : userData = i.ud /\ lastSaved = i.ls
  /\ hipPath \in InitPaths
  /\ screensDir \in BOOLEAN
  /\ sceneViewer \in BOOLEAN
  /\ shots = {}
  /\ scene \in DialogScenes

\* no run of either tool is in progress (both block the host's UI)
NoRun == dlg # "open" /\ pc \in {"idle", "done"}

ResetShot ==
  /\ pc' = "idle"
  /\ custom' = NoCustom
  /\ resolution' = <<>>
  /\ capture' = <<>>

\* ------------------------------------------------ checklist dialog actions
\* show_finalization_dialog: FinalizationDialog.__init__ and exec_
ShowDialog ==
  /\ NoRun
  /\ tool' = "checklist"
  /\ handler' = "open"
  /\ phases' = <<"Idle", "AwaitingUserInput">>
  /\ dlg' = "open"
  /\ checked' = LoadChecked(userData)
  /\ log' = <<>>
  /\ saf' = NoSaf
  /\ bad' = <<>>
  /\ changed' = FALSE
  /\ shots' = {}
  /\ ResetShot
  /\ UNCHANGED <<userData, lastSaved, envVars>>

HandlerReturns == <<"AwaitingUserInput", "Executing", "AwaitingUserInput">>

Persist(chk, t) ==
  /\ userData' = _persist_now(userData, chk, t)
  /\ lastSaved' = [valid |-> TRUE, list |-> _collect_checked_indices(chk)]

\* the user clicks the check box of row i: itemChanged -> _persist_now
Toggle(i) ==
  /\ dlg = "open"
  /\ \E t \in Times :
       LET chk == IF i \in checked THEN checked \ {i} ELSE checked \cup {i}
       IN /\ checked' = chk
          /\ Persist(chk, t)
  /\ handler' = "toggle"
  /\ changed' = TRUE
  /\ log' = <<"persist">>
  /\ phases' = HandlerReturns
  /\ UNCHANGED <<tool, dlg, saf, bad, shots, envVars, shotVars>>

\* _check_all (each changed row persists on the way, the last call wins)
_check_all ==
  /\ dlg = "open"
  /\ checked' = AllIdx
  /\ \E t \in Times : Persist(AllIdx, t)
  /\ handler' = "check_all"
  /\ changed' = TRUE
  /\ log' = <<"persist", "notify_all_checked">>
  /\ phases' = HandlerReturns
  /\ UNCHANGED <<tool, dlg, saf, bad, shots, envVars, shotVars>>

\* _clear_all
_clear_all ==
  /\ dlg = "open"
  /\ checked' = {}
  /\ \E t \in Times : Persist({}, t)
  /\ handler' = "clear_all"
  /\ changed' = TRUE
  /\ log' = <<"persist", "notify_all_cleared">>
  /\ phases' = HandlerReturns
  /\ UNCHANGED <<tool, dlg, saf, bad, shots, envVars, shotVars>>

\* the Screenshot button
Screenshot ==
  /\ dlg = "open"
  /\ \E F \in FaultSets(Faults \ {"save"}) :
       \E r \in {_on_screenshot(sceneViewer, screensDir, F)} :
       /\ log' = r.log
       /\ screensDir' = r.screensDir
       /\ shots' = shots \cup r.shot
  /\ handler' = "screenshot"
  /\ phases' = HandlerReturns
  /\ UNCHANGED <<tool, dlg, checked, userData, lastSaved, changed, saf, bad,
                 hipPath, sceneViewer, scene, shotVars>>

\* the button pressed in a two-button prompt of hou.ui.displayMessage
\* (0 is also the close choice); a prompt that is not shown has no answer
Answers(shown) == IF shown THEN {0, 1} ELSE {1}

\* the Save & Mark as Final button
Finalize ==
  /\ dlg = "open"
  /\ Len(hipPath) < MaxPathTokens
  /\ \E ansU \in Answers(~_all_checked(checked)),
        ansP \in Answers(_has_absolute_paths(scene) # <<>>),
        F \in FaultSets(Faults), t \in Times :
       \E r \in {_on_finalize(checked, userData, hipPath, screensDir, scene,
                               sceneViewer, ansU, ansP, F, t)} :
          /\ log' = r.log
          /\ userData' = r.userData
          /\ lastSaved' = IF r.persisted
                          THEN [valid |-> TRUE,
                                list |-> _collect_checked_indices(checked)]
                          ELSE lastSaved
          /\ hipPath' = r.hipPath
          /\ screensDir' = r.screensDir
          /\ shots' = shots \cup r.shot
          /\ saf' = r.saf
          /\ bad' = r.bad
          /\ dlg' = IF r.accepted THEN "accepted" ELSE "open"
          /\ phases' = IF r.accepted
                       THEN <<"AwaitingUserInput", "Executing", "Success">>
                       ELSE HandlerReturns
  /\ handler' = "finalize"
  /\ UNCHANGED <<tool, checked, changed, sceneViewer, scene, shotVars>>

\* the Cancel button wired to a slot that leaves the dialog open
reject_stays_open == "open"

\* QDialog.reject, the slot of the Cancel button
reject == "rejected"

\* the Cancel button
Cancel ==
  /\ dlg = "open"
  /\ dlg' = reject
  /\ handler' = "cancel"
  /\ log' = <<>>
  /\ phases' = <<"AwaitingUserInput", "Cancelled">>
  /\ UNCHANGED <<tool, checked, userData, lastSaved, changed, saf, bad,
                 shots, envVars, shotVars>>

\* the user opens or closes the Scene Viewer pane between two runs
PaneChange ==
  /\ NoRun
  /\ sceneViewer' = ~sceneViewer
  /\ handler' = "pane_change"
  /\ UNCHANGED <<tool, phases, userData, hipPath, screensDir, shots,
                 scene, dlg, checked, log, saf, bad, lastSaved, changed,
                 shotVars>>

NextDialog ==
  \/ ShowDialog
  \/ \E i \in AllIdx : Toggle(i)
  \/ _check_all
  \/ _clear_all
  \/ Screenshot
  \/ Finalize
  \/ Cancel

\* ------------------------------------------------- viewport-screenshot.py
Opt1080 == <<"1", "9", "2", "0", "x", "1", "0", "8", "0">>

Opt1440 == <<"2", "5", "6", "0", "x", "1", "4", "4", "0">>

Opt2160 == <<"3", "8", "4", "0", "x", "2", "1", "6", "0">>

OptCustom == <<"C", "u", "s", "t", "o", "m", ".", ".", ".">>

options == <<Opt1080, Opt1440, Opt2160, OptCustom>>

\* what the user may type into a field of readMultiInput
InputTexts ==
  { <<"6", "4">>, <<" ", "8", " ">>, <<"0">>, <<"-", "5">>,
    <<"1", ".", "5">>, <<>> }

\* str.strip()
RECURSIVE Strip(_)
Strip(text) ==
  IF text = <<>> THEN text
  ELSE IF Head(text) = " " THEN Strip(Tail(text))
  ELSE IF text[Len(text)] = " " THEN Strip(SubSeq(text, 1, Len(text) - 1))
  ELSE text

\* int(str): ok = FALSE stands for ValueError
int(text) ==
  LET s == Strip(text)
      signed == s # <<>> /\ Head(s) \in {"+", "-"}
      body == IF signed THEN Tail(s) ELSE s
  IN IF body = <<>> \/ \E i \in 1 .. Len(body) : ~IsDigit(body[i])
     THEN [ok |-> FALSE, val |-> 0]
     ELSE LET n == ScanDigits(body, 1, 0).val IN
          [ok |-> TRUE, val |-> IF signed /\ Head(s) = "-" THEN 0 - n ELSE n]

\* str.split(sep)
RECURSIVE split(_, _, _)
split(text, sep, cur) ==
  IF text = <<>> THEN <<cur>>
  ELSE IF Head(text) = sep THEN <<cur>> \o split(Tail(text), sep, <<>>)
  ELSE split(Tail(text), sep, Append(cur, Head(text)))

\* w, h = map(int, selection.split("x"))
PresetResolution(selection) ==
  LET parts == split(selection, "x", <<>>) IN
  <<int(parts[1]).val, int(parts[2]).val>>

\* `w < 0 or h < 0` instead of `<=`: a zero side passes
ValidCustom_zero(w, h) == w.ok /\ h.ok /\ ~(w.val < 0 \/ h.val < 0)

\* the try block of the custom branch: no ValueError is raised
ValidCustom(w, h) == w.ok /\ h.ok /\ ~(w.val <= 0 \/ h.val <= 0)

\* steps 2 to 4 of the script
ShotExecute(sv, dirExists, res, F) ==
  IF ~sv
  THEN [log |-> <<"error:no_scene_viewer">>, dir |-> dirExists, shot |-> {},
        capture |-> <<>>, end |-> "Failed"]
  ELSE IF ~dirExists /\ "makedirs" \in F
  THEN [log |-> <<"makedirs_raises", "uncaught">>, dir |-> FALSE, shot |-> {},
        capture |-> <<>>, end |-> "Failed"]
  ELSE LET made == IF dirExists THEN <<>> ELSE <<"makedirs">> IN
       IF "settings" \in F
       THEN [log |-> made \o <<"settings_raises", "uncaught">>, dir |-> TRUE,
             shot |-> {}, capture |-> <<>>, end |-> "Failed"]
       ELSE IF "flipbook" \in F
       THEN [log |-> made \o <<"flipbook_raises", "uncaught">>, dir |-> TRUE,
             shot |-> {}, capture |-> res, end |-> "Failed"]
       ELSE [log |-> made \o <<"flipbook", "message_saved">>, dir |-> TRUE,
             shot |-> {"tool"}, capture |-> res, end |-> "Success"]

\* the shelf button is clicked: the script runs up to selectFromList
ShotStart ==
  /\ NoRun
  /\ tool' = "shot"
  /\ handler' = "shot_start"
  /\ phases' = <<"Idle", "AwaitingUserInput">>
  /\ pc' = "select"
  /\ custom' = NoCustom
  /\ resolution' = <<>>
  /\ capture' = <<>>
  /\ log' = <<>>
  /\ shots' = {}
  /\ dlg' = "closed"
  /\ checked' = {}
  /\ changed' = FALSE
  /\ saf' = NoSaf
  /\ bad' = <<>>
  /\ UNCHANGED <<userData, lastSaved, envVars>>

\* selectFromList returns
ShotSelect ==
  /\ pc = "select"
  /\ \E indices \in {<<>>} \cup {<<i>> : i \in 0 .. 3} :
       IF indices = <<>>
       THEN /\ pc' = "done"
            /\ log' = <<"error:canceled">>
            /\ phases' = Append(phases, "Cancelled")
            /\ UNCHANGED resolution
       ELSE LET selection == options[indices[1] + 1] IN
            IF selection = OptCustom
            THEN /\ pc' = "custom"
                 /\ UNCHANGED <<log, phases, resolution>>
            ELSE /\ pc' = "capture"
                 /\ resolution' = PresetResolution(selection)
                 /\ phases' = Append(phases, "Executing")
                 /\ UNCHANGED log
  /\ handler' = "shot_select"
  /\ UNCHANGED <<tool, userData, lastSaved, shots, envVars, dlg, checked,
                 changed, saf, bad, custom, capture>>

\* readMultiInput returns
ShotCustom ==
  /\ pc = "custom"
  /\ \E btn \in {0, 1}, wt \in InputTexts, ht \in InputTexts :
       /\ custom' = [read |-> TRUE, btn |-> btn, w |-> wt, h |-> ht]
       /\ IF btn # 0
          THEN /\ pc' = "done"
               /\ log' = <<"error:canceled">>
               /\ phases' = Append(phases, "Cancelled")
               /\ UNCHANGED resolution
          ELSE LET w == int(Strip(wt))
                   h == int(Strip(ht))
               IN IF ValidCustom(w, h)
                  THEN /\ pc' = "capture"
                       /\ resolution' = <<w.val, h.val>>
                       /\ phases' = Append(phases, "Executing")
                       /\ UNCHANGED log
                  ELSE /\ pc' = "done"
                       /\ log' = <<"error:invalid_resolution">>
                       /\ phases' = phases \o <<"Executing", "Failed">>
                       /\ UNCHANGED resolution
  /\ handler' = "shot_custom"
  /\ UNCHANGED <<tool, userData, lastSaved, shots, envVars, dlg, checked,
                 changed, saf, bad, capture>>

\* Scene Viewer lookup, output path, flipbook, closing message
ShotCapture ==
  /\ pc = "capture"
  /\ \E F \in FaultSets(Faults \ {"save"}) :
       \E r \in {ShotExecute(sceneViewer, screensDir, resolution, F)} :
       /\ log' = r.log
       /\ screensDir' = r.dir
       /\ shots' = shots \cup r.shot
       /\ capture' = r.capture
       /\ phases' = Append(phases, r.end)
  /\ pc' = "done"
  /\ handler' = "shot_capture"
  /\ UNCHANGED <<tool, userData, lastSaved, hipPath, sceneViewer, scene, dlg,
                 checked, changed, saf, bad, custom, resolution>>

NextShot ==
  \/ ShotStart
  \/ ShotSelect
  \/ ShotCustom
  \/ ShotCapture

\* the checklist dialog, run any number of times on one scene
Next ==
  \/ NextDialog
  \/ PaneChange

Spec == Init /\ [][Next]_vars

\* the viewport-screenshot script, run any number of times
InitShot ==
  /\ InitLocal
  /\ userData = NoUserData
  /\ lastSaved = NeverSaved
  /\ hipPath \in {Untitled, <<"shot", ".hip">>}
  /\ screensDir \in BOOLEAN
  /\ sceneViewer \in BOOLEAN
  /\ shots = {}
  /\ scene = MakeScene(0, 0, 0)

NextShotTool ==
  \/ NextShot
  \/ PaneChange

SpecShot == InitShot /\ [][NextShotTool]_vars

\* both shelf tools on one scene, one run at a time
InitTools ==
  /\ InitLocal
  /\ userData = NoUserData
  /\ lastSaved = NeverSaved
  /\ hipPath = <<"shot", ".hip">>
  /\ screensDir = FALSE
  /\ sceneViewer \in BOOLEAN
  /\ shots = {}
  /\ scene \in DialogScenes

NextTools ==
  \/ NextDialog
  \/ NextShot
  \/ PaneChange

SpecTools == InitTools /\ [][NextTools]_vars

\* ------------------------------------------- the path scan on its own
ScanScenes ==
  {MakeScene(n, off, stride) :
     n \in 0 .. MaxParms, off \in 0 .. 9, stride \in 0 .. 9}

InitScan ==
  /\ InitLocal
  /\ userData = NoUserData
  /\ lastSaved = NeverSaved
  /\ hipPath = <<>>
  /\ screensDir = FALSE
  /\ sceneViewer = FALSE
  /\ shots = {}
  /\ scene \in ScanScenes

RunScan ==
  /\ handler = "none"
  /\ handler' = "scan"
  /\ bad' = _has_absolute_paths(scene)
  /\ UNCHANGED <<tool, phases, userData, hipPath, screensDir, sceneViewer,
                 shots, scene, dlg, checked, log, saf, lastSaved, changed,
                 shotVars>>

NextScan == RunScan

SpecScan == InitScan /\ [][NextScan]_vars

\* ================================================================ claims
Last(q) == q[Len(q)]

Terminal == {"Success", "Cancelled", "Failed"}

\* C1: a list of row indices saved by _save_state and read back by a newly
\* opened dialog checks exactly the rows of that list, none added, none lost.
C1_RoundTrip ==
  (/\ dlg = "open"
   /\ handler = "open"
   /\ lastSaved.valid
   /\ Range(lastSaved.list) \subseteq AllIdx)
  => checked = Range(lastSaved.list)

C1_Witness ==
  /\ dlg = "open"
  /\ handler = "open"
  /\ lastSaved.valid
  /\ lastSaved.list = <<0, 1>>
  /\ checked = {0, 1}

\* C2: once a toggle, Check All or Clear has returned, the "checked" list
\* stored under STATE_KEY is exactly the set of rows checked in the open
\* dialog, each once, all below the number of rows.
C2_PersistedAtOnce ==
  (dlg = "open" /\ changed)
  => /\ userData.present
     /\ LET d == json_loads(userData.text) IN
        /\ d.ok
        /\ Range(d.checked) = checked
        /\ Len(d.checked) = Cardinality(checked)
        /\ Range(d.checked) \subseteq AllIdx

C2_Witness ==
  /\ dlg = "open"
  /\ changed
  /\ handler = "toggle"
  /\ checked = {1}
  /\ json_loads(userData.text).checked = <<1>>

\* C3: with a row unchecked, _on_finalize shows the "Not all items are
\* checked" prompt first; Go Back ends the handler with nothing saved and the
\* dialog open; Proceed continues as a run with every row checked would.
C3_PromptFirst ==
  [][ (handler' = "finalize" /\ ~_all_checked(checked))
      => /\ log' # <<>>
         /\ log'[1] \in {"ask_unchecked:go_back", "ask_unchecked:proceed"}
         /\ log'[1] = "ask_unchecked:go_back"
              => /\ Len(log') = 1
                 /\ dlg' = "open"
                 /\ ~saf'.called
                 /\ UNCHANGED <<userData, hipPath, screensDir, shots>>
         /\ log'[1] = "ask_unchecked:proceed"
              => \E ansP \in {0, 1}, F \in FaultSets(Faults), t \in Times :
                   \E r \in {_on_finalize(AllIdx, userData, hipPath,
                                           screensDir, scene, sceneViewer,
                                           1, ansP, F, t)} :
                      /\ Tail(log') = r.log
                      /\ hipPath' = r.hipPath
                      /\ screensDir' = r.screensDir
                      /\ shots' = shots \cup r.shot
                      /\ saf' = r.saf
                      /\ (dlg' = "accepted") = r.accepted
    ]_vars

C3_Witness ==
  /\ handler = "finalize"
  /\ ~_all_checked(checked)
  /\ log # <<>>
  /\ log[1] = "ask_unchecked:proceed"
  /\ dlg = "accepted"
  /\ saf.saved

\* the name carries "_final" right before its extension
CarriesFinalSuffix(p) ==
  LET b == splitext(p).base IN b # <<>> /\ Last(b) = "_final"

\* C4: for a document whose name already carries "_final" before the
\* extension, _save_as_final returns the path unchanged and saves nothing.
C4_Claim ==
  (saf.called /\ CarriesFinalSuffix(saf.cur))
  => (saf.ret = saf.cur /\ ~saf.saved)

Letters ==
  {"A", "B", "C", "D", "E", "F", "G", "H", "I", "J", "K", "L", "M", "N",
    "O", "P", "Q", "R", "S", "T", "U", "V", "W", "X", "Y", "Z", "a", "b",
    "c", "d", "e", "f", "g", "h", "i", "j", "k", "l", "m", "n", "o", "p",
    "q", "r", "s", "t", "u", "v", "w", "x", "y", "z"}

DrivePrefix(v) ==
  Len(v) >= 3 /\ v[1] \in Letters /\ v[2] = ":" /\ v[3] \in {"/", "\\"}

ClaimFlagged(v) ==
  /\ StartsWith(v, <<"/">>) \/ DrivePrefix(v)
  /\ ~Contains(v, <<"$", "H", "I", "P">>)
  /\ ~Contains(v, <<"$", "J", "O", "B">>)

Reported(i) == \E k \in DOMAIN bad : bad[k].parm = i

\* C5: a non-empty string value is reported by the scan if and only if it
\* starts with "/" or a drive prefix and holds neither $HIP nor $JOB.
C5_Claim ==
  (handler = "scan" /\ TruncMarker \notin Range(bad))
  => \A i \in DOMAIN scene :
       (scene[i].type = "String" /\ ~scene[i].raises /\ scene[i].val # <<>>)
       => (Reported(i) <=> ClaimFlagged(scene[i].val))

Offenders == {i \in DOMAIN scene : Reports(scene[i])}

Matches == {k \in DOMAIN bad : bad[k] # TruncMarker}

\* C6: the scan returns at most 50 matches, and with more than 50 offending
\* parameters exactly 50 matches followed by the truncation marker.
C6_Claim ==
  handler = "scan"
  => /\ Cardinality(Matches) <= 50
     /\ Cardinality(Offenders) > 50
          => /\ Len(bad) = 51
             /\ Matches = 1 .. 50
             /\ bad[51] = TruncMarker

\* the typed texts that are not a positive integer
BadTexts == { <<"0">>, <<"-", "5">>, <<"1", ".", "5">>, <<>> }

\* C7: in the viewport-screenshot script a custom width or height that is
\* not a positive integer, or a missing Scene Viewer, ends the run with an
\* error and without capture, directory or success message; a capture is
\* requested only at a resolution of two positive integers.
C7_AbortsWhole ==
  tool = "shot"
  => /\ (custom.read /\ custom.btn = 0
           /\ (custom.w \in BadTexts \/ custom.h \in BadTexts))
        => /\ pc = "done"
           /\ log = <<"error:invalid_resolution">>
           /\ Last(phases) = "Failed"
           /\ capture = <<>>
           /\ shots = {}
     /\ (handler = "shot_capture" /\ ~sceneViewer)
        => /\ pc = "done"
           /\ log = <<"error:no_scene_viewer">>
           /\ Last(phases) = "Failed"
           /\ capture = <<>>
           /\ shots = {}
     /\ capture # <<>>
        => Len(capture) = 2 /\ capture[1] > 0 /\ capture[2] > 0
     /\ "message_saved" \in Range(log)
        => capture # <<>> /\ "error:invalid_resolution" \notin Range(log)

C7_Witness ==
  /\ tool = "shot"
  /\ custom.read
  /\ custom.btn = 0
  /\ custom.w = <<"0">>
  /\ custom.h = <<"6", "4">>
  /\ pc = "done"
  /\ log = <<"error:invalid_resolution">>

\* C8: no handler that finalizes or takes a screenshot ends with an uncaught
\* exception, and once the scene is final a failing screenshot does not keep
\* _on_finalize from accepting the dialog.
C8_Claim ==
  handler \in {"finalize", "screenshot"}
  => /\ "uncaught" \notin Range(log)
     /\ (handler = "finalize" /\ saf.called /\ saf.ret # <<>>)
        => dlg = "accepted"

\* C9 as stated: no phase is entered twice, and nothing leads from Executing
\* or a terminal phase back to AwaitingUserInput.
C9_Original ==
  \A i, j \in DOMAIN phases :
    i < j => /\ phases[i] # phases[j]
             /\ ~(/\ phases[i] \in {"Executing"} \cup Terminal
                  /\ phases[j] = "AwaitingUserInput")

ShotPaths ==
  { <<"Idle", "AwaitingUserInput">>,
    <<"Idle", "AwaitingUserInput", "Cancelled">>,
    <<"Idle", "AwaitingUserInput", "Executing">>,
    <<"Idle", "AwaitingUserInput", "Executing", "Success">>,
    <<"Idle", "AwaitingUserInput", "Executing", "Failed">> }

DialogSteps ==
  { <<"Idle", "AwaitingUserInput">>,
    <<"AwaitingUserInput", "Executing", "AwaitingUserInput">>,
    <<"AwaitingUserInput", "Executing", "Success">>,
    <<"AwaitingUserInput", "Cancelled">> }

\* C9, amended: a run of the viewport-screenshot script goes Idle ->
\* AwaitingUserInput -> Executing -> terminal and enters no phase twice; the
\* checklist dialog goes back to AwaitingUserInput after every handler that
\* does not close it and ends only as Success (accepted) or Cancelled
\* (rejected); in neither tool does a step start from a terminal phase.
C9_Amended ==
  /\ tool = "shot"
     => /\ phases \in ShotPaths
        /\ (pc = "done") = (Last(phases) \in Terminal)
  /\ tool = "checklist"
     => /\ phases \in DialogSteps
        /\ (dlg = "open") = (Last(phases) = "AwaitingUserInput")
        /\ (dlg = "accepted") = (Last(phases) = "Success")
        /\ (dlg = "rejected") = (Last(phases) = "Cancelled")
  /\ \A i \in DOMAIN phases : phases[i] \in Terminal => i = Len(phases)

C9_Witness ==
  /\ tool = "checklist"
  /\ handler = "screenshot"
  /\ dlg = "open"
  /\ phases = <<"AwaitingUserInput", "Executing", "AwaitingUserInput">>

\* C10: _on_finalize accepts the dialog only when _save_as_final returned a
\* path; when it returns None the dialog stays open and no final screenshot
\* is taken.
C10_Claim ==
  (handler = "finalize" /\ saf.called /\ saf.ret = <<>>)
  => (dlg = "open" /\ "final" \notin shots)

====
